---------------------------- MODULE Spec2Model ----------------------------
(***************************************************************************)
(* mcp-osrs: the paginated substring search over line-oriented data files  *)
(* (searchFile) and the tool router that calls it.                         *)
(*                                                                         *)
(* Strings are sequences of one-character strings, so that replace,        *)
(* toLowerCase, includes, split and join are computed character by         *)
(* character as the JavaScript built-ins compute them.                     *)
(***************************************************************************)
EXTENDS Integers, Sequences, FiniteSets, TLC

(***************************************************************************)
(* Bounds of the model.                                                    *)
(***************************************************************************)
MaxLines == 3
MaxTermLen == 2
MaxPage == 3
MaxPageSize == 2

(***************************************************************************)
(* JavaScript string built-ins used by searchFile and by the router.       *)
(***************************************************************************)
Min(a, b) == IF a < b THEN a ELSE b
Max(a, b) == IF a > b THEN a ELSE b

\* String.prototype.toLowerCase, on one character.
LowerChar(ch) ==
    CASE ch = "A" -> "a"
      [] ch = "B" -> "b"
      [] OTHER -> ch

ToLowerCase(s) == [i \in 1..Len(s) |-> LowerChar(s[i])]

\* String.prototype.indexOf: 0-based position of the first occurrence, or -1.
IndexOf(s, pat) ==
    LET hits == {i \in 0..(Len(s) - Len(pat)) : SubSeq(s, i + 1, i + Len(pat)) = pat}
    IN  IF hits = {} THEN -1 ELSE CHOOSE i \in hits : \A j \in hits : i <= j

\* String.prototype.includes.
Includes(s, pat) == IndexOf(s, pat) # -1

\* String.prototype.replace with a string pattern: only the first occurrence.
Replace(s, pat, rep) ==
    LET i == IndexOf(s, pat)
    IN  IF i = -1 THEN s
        ELSE SubSeq(s, 1, i) \o rep \o SubSeq(s, i + Len(pat) + 1, Len(s))

\* The class \s of a JavaScript regular expression, on the characters modelled.
IsWhitespace(ch) == ch \in {" ", "\t"}

\* String.prototype.split(/\s+/): the pieces between maximal runs of
\* whitespace; a leading or trailing run leaves an empty first or last piece.
RECURSIVE SplitWhitespace(_)
SplitWhitespace(s) ==
    LET ws == {i \in 1..Len(s) : IsWhitespace(s[i])}
    IN  IF ws = {} THEN <<s>>
        ELSE LET i == CHOOSE k \in ws : \A m \in ws : k <= m
                 rest == {k \in (i + 1)..Len(s) : ~IsWhitespace(s[k])}
                 j == IF rest = {} THEN Len(s) + 1
                      ELSE CHOOSE k \in rest : \A m \in rest : k <= m
             IN  <<SubSeq(s, 1, i - 1)>> \o SplitWhitespace(SubSeq(s, j, Len(s)))

\* Array.prototype.join.
RECURSIVE Join(_, _)
Join(parts, sep) ==
    IF Len(parts) = 0 THEN <<>>
    ELSE IF Len(parts) = 1 THEN parts[1]
    ELSE parts[1] \o sep \o Join(Tail(parts), sep)

\* Array.prototype.slice(start, end): indices are 0-based, a negative index
\* counts from the end, and both are clamped to the array.
Slice(arr, start, end) ==
    LET n == Len(arr)
        from == IF start < 0 THEN Max(n + start, 0) ELSE Min(start, n)
        to == IF end < 0 THEN Max(n + end, 0) ELSE Min(end, n)
    IN  IF from >= to THEN <<>> ELSE SubSeq(arr, from + 1, to)

\* Math.ceil(a / b) for a >= 0 and b >= 1.
CeilDiv(a, b) == IF a % b = 0 THEN a \div b ELSE (a \div b) + 1


(***************************************************************************)
(* searchFile: the pure steps of the scan and of the close handler.        *)
(***************************************************************************)

\* A variant that replaces every space, as replaceAll would.
NormalizeTermEverySpace(searchTerm) ==
    [i \in 1..Len(searchTerm) |-> IF searchTerm[i] = " " THEN "_" ELSE searchTerm[i]]

\* searchTerm = searchTerm.replace(" ", "_")
NormalizeTerm(searchTerm) == Replace(searchTerm, <<" ">>, <<"_">>)

\* line.toLowerCase().includes(searchTerm.toLowerCase())
LineMatches(line, searchTerm) ==
    Includes(ToLowerCase(line), ToLowerCase(searchTerm))

\* The 'line' handler: count the line, and keep it when it matches.
OnLine(locals, line) ==
    LET n == locals.lineNumber + 1
    IN  [locals EXCEPT
           !.lineNumber = n,
           !.results = IF LineMatches(line, locals.searchTerm)
                       THEN Append(@, [line |-> line, lineNumber |-> n])
                       ELSE @]

\* A variant that rounds down, as Math.floor would.
TotalPagesFloor(totalResults, pageSize) == totalResults \div pageSize

\* Math.ceil(totalResults / pageSize)
TotalPages(totalResults, pageSize) == CeilDiv(totalResults, pageSize)

\* A variant that takes the page number for a 0-based index.
PaginatedResultsZeroBased(results, page, pageSize) ==
    LET startIndex == page * pageSize
        endIndex == startIndex + pageSize
    IN  Slice(results, startIndex, endIndex)

\* results.slice(startIndex, endIndex)
PaginatedResults(results, page, pageSize) ==
    LET startIndex == (page - 1) * pageSize
        endIndex == startIndex + pageSize
    IN  Slice(results, startIndex, endIndex)

\* The map callback of formattedResults: a key-value pair when the line splits
\* into two parts or more, the result itself otherwise.
FormatResult(result) ==
    LET parts == SplitWhitespace(result.line)
    IN  IF Len(parts) >= 2
        THEN LET id == parts[1]
                 value == Join(Tail(parts), <<" ">>)
             IN  [line |-> result.line, lineNumber |-> result.lineNumber,
                  id |-> id, value |-> value,
                  formatted |-> id \o <<"\t">> \o value]
        ELSE result

\* A variant that compares for inequality.
HasNextPageNotLast(page, totalPages) == page # totalPages

HasNextPage(page, totalPages) == page < totalPages

HasPreviousPage(page) == page > 1

\* A variant that counts the results and the pages of the selected slice.
OnCloseSliceTotals(locals) ==
    LET paginatedResults == PaginatedResults(locals.results, locals.page, locals.pageSize)
        totalResults == Len(paginatedResults)
        totalPages == TotalPages(totalResults, locals.pageSize)
        formattedResults == [i \in 1..Len(paginatedResults) |->
                                FormatResult(paginatedResults[i])]
    IN  [results |-> formattedResults,
         pagination |-> [page |-> locals.page,
                         pageSize |-> locals.pageSize,
                         totalResults |-> totalResults,
                         totalPages |-> totalPages,
                         hasNextPage |-> HasNextPage(locals.page, totalPages),
                         hasPreviousPage |-> HasPreviousPage(locals.page)]]

\* The 'close' handler: the value the promise is resolved with.
OnClose(locals) ==
    LET totalResults == Len(locals.results)
        totalPages == TotalPages(totalResults, locals.pageSize)
        paginatedResults == PaginatedResults(locals.results, locals.page, locals.pageSize)
        formattedResults == [i \in 1..Len(paginatedResults) |->
                                FormatResult(paginatedResults[i])]
    IN  [results |-> formattedResults,
         pagination |-> [page |-> locals.page,
                         pageSize |-> locals.pageSize,
                         totalResults |-> totalResults,
                         totalPages |-> totalPages,
                         hasNextPage |-> HasNextPage(locals.page, totalPages),
                         hasPreviousPage |-> HasPreviousPage(locals.page)]]

(***************************************************************************)
(* Promises: the first resolve or reject settles, later ones are ignored.  *)
(***************************************************************************)
NoValue == [tag |-> "none"]
Pending == [state |-> "pending", value |-> NoValue]
Unused == [state |-> "none", value |-> NoValue]

Resolve(p, v) ==
    IF p.state = "pending" THEN [state |-> "resolved", value |-> v] ELSE p

Reject(p, e) ==
    IF p.state = "pending" THEN [state |-> "rejected", value |-> e] ELSE p

\* new Error(`File not found: ${filePath}`)
FileNotFoundError(filePath) ==
    [tag |-> "error", message |-> "File not found", path |-> filePath]

\* The error a failed open or read of the stream carries.
IOError(code) == [tag |-> "error", message |-> code, path |-> <<>>]

\* A variant whose 'error' handler does not reject.
OnErrorIgnored(p, err) == p

\* The 'error' handler: reject(err).
OnError(p, err) == Reject(p, err)

(***************************************************************************)
(* State.  Every tool call c has its own request, its own searchFile       *)
(* activation (arguments, locals, promise) and its own read stream and     *)
(* readline interface; the data directory is shared.                       *)
(***************************************************************************)
VARIABLES
    exists,     \* the paths that exist in the file system
    content,    \* path -> the lines of the file
    pc,         \* call -> where the router's handler is
    req,        \* call -> the tool call's name and raw arguments
    args,       \* call -> the arguments searchFile was called with
    locals,     \* call -> searchTerm, page, pageSize, results, lineNumber
    stream,     \* call -> the fs.ReadStream of the call
    rl,         \* call -> the readline interface of the call
    promise,    \* call -> the promise searchFile returned
    response,   \* call -> what the handler returned or threw
    invoked     \* call -> the file helpers the handler invoked, with their argument

vars == <<exists, content, pc, req, args, locals, stream, rl, promise, response, invoked>>

Calls == {1, 2}

\* const DATA_DIR = path.join(__dirname, 'data')
DATA_DIR == <<"d", "a", "t", "a">>

\* path.join(dir, name), for a name that is a single path segment.
PathJoin(dir, name) == dir \o <<"/">> \o name

\* fs.existsSync(filePath)
ExistsSync(filePath) == filePath \in exists

NoArgs == [filePath |-> <<>>, searchTerm |-> <<>>, page |-> 0, pageSize |-> 0]
NoLocals == [searchTerm |-> <<>>, page |-> 0, pageSize |-> 0,
             results |-> <<>>, lineNumber |-> 0]
NoStream == [state |-> "none", fd |-> FALSE, pos |-> 0, opens |-> 0]
NoResponse == [kind |-> "none", body |-> NoValue]

(***************************************************************************)
(* searchFile(filePath, searchTerm, page, pageSize): the synchronous part. *)
(* The term is normalized, then the promise's executor either rejects      *)
(* because the path does not exist, or creates the read stream and the     *)
(* readline interface and registers the three handlers.                    *)
(***************************************************************************)
\* A variant without the `return` after reject: it goes on to open the stream.
ExecutorNoReturn(filePath) ==
    [promise |-> IF ~ExistsSync(filePath)
                 THEN Reject(Pending, FileNotFoundError(filePath))
                 ELSE Pending,
     stream |-> [NoStream EXCEPT !.state = "opening"], rl |-> "listening"]

\* The promise's executor: reject and return when the path does not exist,
\* else create the stream and the interface and register the handlers.
Executor(filePath) ==
    IF ~ExistsSync(filePath)
    THEN [promise |-> Reject(Pending, FileNotFoundError(filePath)),
          stream |-> NoStream, rl |-> "none"]
    ELSE [promise |-> Pending,
          stream |-> [NoStream EXCEPT !.state = "opening"], rl |-> "listening"]

\* A variant that keeps the bindings at module level: one set for all calls.
FrameShared(c) == 1

\* The bindings an invocation's handlers close over: searchTerm, page and
\* pageSize are parameters, results and lineNumber are declared inside the
\* executor, so every call has its own.
Frame(c) == c

SearchFile(c) ==
    /\ pc[c] = "calling"
    /\ pc' = [pc EXCEPT ![c] = "awaiting"]
    /\ LET a == args[c]
           created == Executor(a.filePath)
       IN  /\ locals' = [locals EXCEPT
                           ![Frame(c)] =
                                  [searchTerm |-> NormalizeTerm(a.searchTerm),
                                   page |-> a.page, pageSize |-> a.pageSize,
                                   results |-> <<>>, lineNumber |-> 0]]
           /\ promise' = [promise EXCEPT ![c] = created.promise]
           /\ stream' = [stream EXCEPT ![c] = created.stream]
           /\ rl' = [rl EXCEPT ![c] = created.rl]
    /\ UNCHANGED <<exists, content, req, args, response, invoked>>

(***************************************************************************)
(* The read stream and the readline interface.  fs.createReadStream opens  *)
(* the file asynchronously; readline turns the stream's data into 'line'   *)
(* events, closes itself (emitting 'close') on the stream's 'end', and     *)
(* forwards the stream's 'error' while it is not closed.  A stream that    *)
(* failed is destroyed: it emits no more data and no 'end'.                *)
(***************************************************************************)
\* A variant that passes { autoClose: false } and never closes the stream.
AutoCloseOff == FALSE

\* fs.createReadStream(filePath) passes no options: autoClose is left true.
AutoClose == TRUE

StreamOpen(c) ==
    /\ stream[c].state = "opening"
    /\ ExistsSync(args[c].filePath)
    /\ stream' = [stream EXCEPT ![c].state = "open", ![c].fd = TRUE,
                                ![c].opens = @ + 1]
    /\ UNCHANGED <<exists, content, pc, req, args, locals, rl, promise, response, invoked>>

\* The causes a stream can fail with: the open finds no file or is refused,
\* or a read fails.
ErrorCodes(c) ==
    IF stream[c].state = "opening"
    THEN IF ExistsSync(args[c].filePath) THEN {"EACCES"} ELSE {"ENOENT"}
    ELSE {"EIO"}

StreamError(c) ==
    /\ stream[c].state \in {"opening", "open"}
    /\ \E code \in ErrorCodes(c) :
          promise' = [promise EXCEPT
                        ![c] = IF rl[c] = "listening" THEN OnError(@, IOError(code)) ELSE @]
    /\ stream' = [stream EXCEPT ![c].state = "errored"]
    /\ UNCHANGED <<exists, content, pc, req, args, locals, rl, response, invoked>>

RlLine(c) ==
    /\ stream[c].state = "open"
    /\ rl[c] = "listening"
    /\ stream[c].pos < Len(content[args[c].filePath])
    /\ locals' = [locals EXCEPT
                    ![Frame(c)] = OnLine(@, content[args[c].filePath][stream[c].pos + 1])]
    /\ stream' = [stream EXCEPT ![c].pos = @ + 1]
    /\ UNCHANGED <<exists, content, pc, req, args, rl, promise, response, invoked>>

StreamEnd(c) ==
    /\ stream[c].state = "open"
    /\ rl[c] = "listening"
    /\ stream[c].pos = Len(content[args[c].filePath])
    /\ stream' = [stream EXCEPT ![c].state = "ended"]
    /\ rl' = [rl EXCEPT ![c] = "closed"]
    /\ promise' = [promise EXCEPT ![c] = Resolve(@, OnClose(locals[Frame(c)]))]
    /\ UNCHANGED <<exists, content, pc, req, args, locals, response, invoked>>

\* The stream releases its file descriptor once it has ended or failed.
StreamClose(c) ==
    /\ AutoClose
    /\ stream[c].state \in {"ended", "errored"}
    /\ stream[c].fd
    /\ stream' = [stream EXCEPT ![c].fd = FALSE]
    /\ UNCHANGED <<exists, content, pc, req, args, locals, rl, promise, response, invoked>>

(***************************************************************************)
(* The tool router: the CallToolRequestSchema handler.                     *)
(***************************************************************************)
SearchPrefix == <<"s", "e", "a", "r", "c", "h", "_">>
TxtSuffix == <<".", "t", "x", "t">>
Objtypes == <<"o", "b", "j", "t", "y", "p", "e", "s">>
Npctypes == <<"n", "p", "c", "t", "y", "p", "e", "s">>

\* The tools of the model: two of the thirteen search_*types tools, which
\* differ in their name only, and the two tools that take a filename.
SearchTypesTools == {SearchPrefix \o Objtypes, SearchPrefix \o Npctypes}
SearchDataFileTool == SearchPrefix \o <<"d", "a", "t", "a", "_", "f", "i", "l", "e">>
GetFileDetailsTool == <<"g", "e", "t", "_", "f", "i", "l", "e", "_",
                        "d", "e", "t", "a", "i", "l", "s">>

\* A raw argument of a tool call: absent, a string, an integer, or a number
\* that is no integer (val + 1/2).
Omitted == [kind |-> "omitted", val |-> 0]
RawString(s) == [kind |-> "string", val |-> s]
RawInt(n) == [kind |-> "int", val |-> n]
RawFrac(n) == [kind |-> "frac", val |-> n]

\* z.number().int().min(1).optional().default(1)
PageMin == 1
PageDefault == 1
\* z.number().int().min(1).max(100).optional().default(10)
PageSizeMin == 1
PageSizeMax == 100
PageSizeDefault == 10

\* z.string()
ZString(raw) == raw.kind = "string"

ZPage(raw) ==
    \/ raw.kind = "omitted"
    \/ raw.kind = "int" /\ raw.val >= PageMin

\* A variant of the pageSize schema without .max(100).
ZPageSizeNoMax(raw) ==
    \/ raw.kind = "omitted"
    \/ raw.kind = "int" /\ raw.val >= PageSizeMin

ZPageSize(raw) ==
    \/ raw.kind = "omitted"
    \/ raw.kind = "int" /\ raw.val >= PageSizeMin /\ raw.val <= PageSizeMax

Parsed(raw, default) == IF raw.kind = "omitted" THEN default ELSE raw.val

\* FileSearchSchema.parse(args): the parsed object, or a ZodError.
FileSearchSchema(r) ==
    IF ZString(r.query) /\ ZPage(r.page) /\ ZPageSize(r.pageSize)
    THEN [ok |-> TRUE, filename |-> <<>>, query |-> r.query.val,
          page |-> Parsed(r.page, PageDefault),
          pageSize |-> Parsed(r.pageSize, PageSizeDefault)]
    ELSE [ok |-> FALSE, filename |-> <<>>, query |-> <<>>, page |-> 0, pageSize |-> 0]

\* GenericFileSearchSchema.parse(args)
GenericFileSearchSchema(r) ==
    IF ZString(r.filename) /\ ZString(r.query) /\ ZPage(r.page) /\ ZPageSize(r.pageSize)
    THEN [ok |-> TRUE, filename |-> r.filename.val, query |-> r.query.val,
          page |-> Parsed(r.page, PageDefault),
          pageSize |-> Parsed(r.pageSize, PageSizeDefault)]
    ELSE [ok |-> FALSE, filename |-> <<>>, query |-> <<>>, page |-> 0, pageSize |-> 0]

\* FileDetailsSchema.parse(args)
FileDetailsSchema(r) ==
    IF ZString(r.filename)
    THEN [ok |-> TRUE, filename |-> r.filename.val]
    ELSE [ok |-> FALSE, filename |-> <<>>]

\* A variant of the security check that forgets the backslash.
IsTraversalNoBackslash(filename) ==
    \/ Includes(filename, <<".", ".">>)
    \/ Includes(filename, <<"/">>)

\* The security check of search_data_file and get_file_details.
IsTraversal(filename) ==
    \/ Includes(filename, <<".", ".">>)
    \/ Includes(filename, <<"/">>)
    \/ Includes(filename, <<"\\">>)

\* fileExists(filename)
FileExists(filename) == ExistsSync(PathJoin(DATA_DIR, filename))

\* getFileDetails(filename), without the numbers of fs.statSync.
GetFileDetails(filename) ==
    IF ~ExistsSync(PathJoin(DATA_DIR, filename))
    THEN [exists |-> FALSE]
    ELSE [exists |-> TRUE]

\* The catch block: a ZodError becomes "Invalid arguments", any other error
\* is wrapped with the tool's name.
InvalidArguments == [tag |-> "error", message |-> "Invalid arguments"]
ExecutingTool(name, err) ==
    [tag |-> "error", message |-> "Error executing tool", tool |-> name, cause |-> err]
InvalidFilename == [tag |-> "error", message |-> "Invalid filename"]
UnknownTool == [tag |-> "error", message |-> "Unknown tool"]

\* What the handler does up to its first await: it throws, returns, or calls
\* searchFile; `invoked` lists the file helpers it invoked on the way.
Throws(err, helpers) ==
    [next |-> "done", response |-> [kind |-> "throw", body |-> err],
     args |-> NoArgs, invoked |-> helpers]
Returns(body, helpers) ==
    [next |-> "done", response |-> [kind |-> "return", body |-> body],
     args |-> NoArgs, invoked |-> helpers]
CallsSearchFile(filename, query, page, pageSize, helpers) ==
    [next |-> "calling", response |-> NoResponse,
     args |-> [filePath |-> PathJoin(DATA_DIR, filename), searchTerm |-> query,
               page |-> page, pageSize |-> pageSize],
     invoked |-> helpers \cup {[fn |-> "searchFile", filename |-> filename]}]

NotFoundInDataDirectory(filename) ==
    [error |-> "not found in data directory", filename |-> filename]

\* case "search_varptypes": ... case "search_tabletypes":
SearchTypesCase(r) ==
    LET a == FileSearchSchema(r)
        filename == Replace(r.name, SearchPrefix, <<>>) \o TxtSuffix
        helpers == {[fn |-> "fileExists", filename |-> filename]}
    IN  IF ~a.ok THEN Throws(InvalidArguments, {})
        ELSE IF ~FileExists(filename)
        THEN Returns(NotFoundInDataDirectory(filename), helpers)
        ELSE CallsSearchFile(filename, a.query, a.page, a.pageSize, helpers)

\* case "search_data_file":
SearchDataFileCase(r) ==
    LET a == GenericFileSearchSchema(r)
        helpers == {[fn |-> "fileExists", filename |-> a.filename]}
    IN  IF ~a.ok THEN Throws(InvalidArguments, {})
        ELSE IF IsTraversal(a.filename)
        THEN Throws(ExecutingTool(r.name, InvalidFilename), {})
        ELSE IF ~FileExists(a.filename)
        THEN Returns(NotFoundInDataDirectory(a.filename), helpers)
        ELSE CallsSearchFile(a.filename, a.query, a.page, a.pageSize, helpers)

\* case "get_file_details":
GetFileDetailsCase(r) ==
    LET a == FileDetailsSchema(r)
    IN  IF ~a.ok THEN Throws(InvalidArguments, {})
        ELSE IF IsTraversal(a.filename)
        THEN Throws(ExecutingTool(r.name, InvalidFilename), {})
        ELSE Returns(GetFileDetails(a.filename),
                     {[fn |-> "getFileDetails", filename |-> a.filename]})

\* switch (name)
CallTool(r) ==
    IF r.name \in SearchTypesTools THEN SearchTypesCase(r)
    ELSE IF r.name = SearchDataFileTool THEN SearchDataFileCase(r)
    ELSE IF r.name = GetFileDetailsTool THEN GetFileDetailsCase(r)
    ELSE Throws(ExecutingTool(r.name, UnknownTool), {})

NoReq == [name |-> <<>>, filename |-> Omitted, query |-> Omitted,
          page |-> Omitted, pageSize |-> Omitted]

\* The handler runs from the request up to its first await.
HandleRequest(c) ==
    /\ pc[c] = "received"
    /\ LET out == CallTool(req[c])
       IN  /\ pc' = [pc EXCEPT ![c] = out.next]
           /\ response' = [response EXCEPT ![c] = out.response]
           /\ args' = [args EXCEPT ![c] = out.args]
           /\ invoked' = [invoked EXCEPT ![c] = out.invoked]
    /\ UNCHANGED <<exists, content, req, locals, stream, rl, promise>>

\* The handler resumes after `await searchFile(...)`: it returns the page, or
\* the rejection is caught and thrown again with the tool's name.
Respond(c) ==
    /\ pc[c] = "awaiting"
    /\ promise[c].state \in {"resolved", "rejected"}
    /\ pc' = [pc EXCEPT ![c] = "done"]
    /\ response' = [response EXCEPT
                      ![c] = IF promise[c].state = "resolved"
                             THEN [kind |-> "return", body |-> promise[c].value]
                             ELSE [kind |-> "throw",
                                   body |-> ExecutingTool(req[c].name, promise[c].value)]]
    /\ UNCHANGED <<exists, content, req, args, locals, stream, rl, promise, invoked>>

(***************************************************************************)
(* The environment: tool calls arrive, and another process may remove a    *)
(* data file at any moment.                                                *)
(***************************************************************************)
\* All strings over `chars` of length at most n.
StringsOver(chars, n) == UNION {[1..k -> chars] : k \in 0..n}

TermChars == {"A", " "}
Terms == StringsOver(TermChars, MaxTermLen)

ObjtypesTxt == Objtypes \o TxtSuffix
ObjtypesPath == PathJoin(DATA_DIR, ObjtypesTxt)

\* The lines data files are made of: a key and a value, a line that starts or
\* ends with a blank, a name with an underscore and no blank, an underscore
\* followed by a blank.
Corpus == { <<"a", " ", "a">>, <<" ", "a">>, <<"a", " ">>,
            <<"A", "_", "A">>, <<"_", " ", "a">> }

\* The data file of the router's runs.
SampleFile == << <<"a", " ", "a">>, <<"A", "_", "A">>, <<" ", "a">> >>

Filenames == { ObjtypesTxt, <<".", "x">>, <<".", ".">>, <<"x", "/">>, <<"\\">> }

RawFilenames == {Omitted} \cup {RawString(f) : f \in Filenames}
RawQueries == {Omitted} \cup {RawString(t) : t \in Terms}
RawPages == {Omitted, RawFrac(1)} \cup {RawInt(n) : n \in 0..MaxPage}
RawPageSizes == {Omitted, RawFrac(1)} \cup {RawInt(n) : n \in 0..MaxPageSize}
                   \cup {RawInt(PageSizeMax), RawInt(PageSizeMax + 1)}

Requests ==
    [name : SearchTypesTools, filename : {Omitted}, query : RawQueries,
     page : RawPages, pageSize : RawPageSizes]
    \cup [name : {SearchDataFileTool}, filename : RawFilenames, query : RawQueries,
          page : RawPages, pageSize : RawPageSizes]
    \cup [name : {GetFileDetailsTool, <<"x">>}, filename : RawFilenames,
          query : {Omitted}, page : {Omitted}, pageSize : {Omitted}]

\* A tool call arrives.  The runs follow one tool call at a time.
Receive(c) ==
    /\ \A d \in Calls : pc[d] = "idle"
    /\ \E r \in Requests : req' = [req EXCEPT ![c] = r]
    /\ pc' = [pc EXCEPT ![c] = "received"]
    /\ UNCHANGED <<exists, content, args, locals, stream, rl, promise, response, invoked>>

\* Another process removes a file.
Unlink(p) ==
    /\ p \in exists
    /\ exists' = exists \ {p}
    /\ UNCHANGED <<content, pc, req, args, locals, stream, rl, promise, response, invoked>>

Idle ==
    /\ pc = [c \in Calls |-> "idle"]
    /\ req = [c \in Calls |-> NoReq]
    /\ args = [c \in Calls |-> NoArgs]
    /\ locals = [c \in Calls |-> NoLocals]
    /\ stream = [c \in Calls |-> NoStream]
    /\ rl = [c \in Calls |-> "none"]
    /\ promise = [c \in Calls |-> Unused]
    /\ response = [c \in Calls |-> NoResponse]
    /\ invoked = [c \in Calls |-> {}]

\* The server has started: objtypes.txt is in the data directory,
\* npctypes.txt is not, and no tool call has arrived.
Init ==
    /\ exists = {ObjtypesPath}
    /\ content = [p \in {ObjtypesPath} |-> SampleFile]
    /\ Idle

Next ==
    \/ \E c \in Calls :
          \/ Receive(c)
          \/ HandleRequest(c)
          \/ SearchFile(c)
          \/ StreamOpen(c)
          \/ StreamError(c)
          \/ RlLine(c)
          \/ StreamEnd(c)
          \/ StreamClose(c)
          \/ Respond(c)
    \/ \E p \in exists : Unlink(p)

Spec == Init /\ [][Next]_vars

\* The event loop runs every callback that is ready, and the operating system
\* completes every open and read it was asked for.
Fairness ==
    \A c \in Calls :
        /\ WF_vars(HandleRequest(c))
        /\ WF_vars(SearchFile(c))
        /\ WF_vars(StreamOpen(c) \/ StreamError(c))
        /\ WF_vars(RlLine(c))
        /\ WF_vars(StreamEnd(c))
        /\ WF_vars(StreamClose(c))
        /\ WF_vars(Respond(c))

FairSpec == Spec /\ Fairness

(***************************************************************************)
(* searchFile as a function of its arguments and of the file: call 1 is    *)
(* about to run searchFile on a file of up to MaxLines lines, and the scan *)
(* meets no I/O error.                                                     *)
(***************************************************************************)
ScanFiles == UNION {[1..n -> Corpus] : n \in 0..MaxLines}

InitScan ==
    /\ exists = {ObjtypesPath}
    /\ content \in [{ObjtypesPath} -> ScanFiles]
    /\ pc = [c \in Calls |-> IF c = 1 THEN "calling" ELSE "idle"]
    /\ req = [c \in Calls |-> NoReq]
    /\ \E t \in Terms, page \in 1..MaxPage, pageSize \in 1..MaxPageSize :
          args = [c \in Calls |->
                    IF c = 1
                    THEN [filePath |-> ObjtypesPath, searchTerm |-> t,
                          page |-> page, pageSize |-> pageSize]
                    ELSE NoArgs]
    /\ locals = [c \in Calls |-> NoLocals]
    /\ stream = [c \in Calls |-> NoStream]
    /\ rl = [c \in Calls |-> "none"]
    /\ promise = [c \in Calls |-> Unused]
    /\ response = [c \in Calls |-> NoResponse]
    /\ invoked = [c \in Calls |-> {}]

NextScan ==
    \E c \in Calls :
        \/ SearchFile(c)
        \/ StreamOpen(c)
        \/ RlLine(c)
        \/ StreamEnd(c)
        \/ StreamClose(c)

SpecScan == InitScan /\ [][NextScan]_vars

(***************************************************************************)
(* Concurrent searches: two calls of searchFile on the same file are in    *)
(* flight together, each with its own arguments, and their stream events   *)
(* (open, line, end, error, close) interleave in every order.              *)
(***************************************************************************)
\* One term that selects every line of the file and one that selects a
\* single line.
ConcTerms == { <<"a">>, <<"A", " ">> }

ConcArgs ==
    [filePath : {ObjtypesPath}, searchTerm : ConcTerms,
     page : 1..MaxPage, pageSize : 1..MaxPageSize]

InitConc ==
    /\ exists = {ObjtypesPath}
    /\ content = [p \in {ObjtypesPath} |-> SampleFile]
    /\ pc = [c \in Calls |-> "calling"]
    /\ req = [c \in Calls |-> NoReq]
    /\ args \in [Calls -> ConcArgs]
    /\ locals = [c \in Calls |-> NoLocals]
    /\ stream = [c \in Calls |-> NoStream]
    /\ rl = [c \in Calls |-> "none"]
    /\ promise = [c \in Calls |-> Unused]
    /\ response = [c \in Calls |-> NoResponse]
    /\ invoked = [c \in Calls |-> {}]

NextConc ==
    \E c \in Calls :
        \/ SearchFile(c)
        \/ StreamOpen(c)
        \/ StreamError(c)
        \/ RlLine(c)
        \/ StreamEnd(c)
        \/ StreamClose(c)

SpecConc == InitConc /\ [][NextConc]_vars

(***************************************************************************)
(* Properties of the scan and of the pagination (under SpecScan).          *)
(***************************************************************************)
Settled(c) == promise[c].state \in {"resolved", "rejected"}
Resolved(c) == promise[c].state = "resolved"
FileOf(c) == content[args[c].filePath]

\* t with its first space, and no other, replaced by an underscore.
FirstSpaceUnderscored(t) ==
    [i \in 1..Len(t) |->
        IF t[i] = " " /\ \A j \in 1..(i - 1) : t[j] # " " THEN "_" ELSE t[i]]

IsSubstring(sub, str) ==
    \E i \in 0..(Len(str) - Len(sub)) : \A k \in 1..Len(sub) : str[i + k] = sub[k]

\* The positions of the lines of F that the term T selects.
SelectedLines(F, T) ==
    {i \in 1..Len(F) :
        IsSubstring(ToLowerCase(FirstSpaceUnderscored(T)), ToLowerCase(F[i]))}

\* R lists, in file order, exactly the lines of F at the positions E.
ListsExactly(R, F, E) ==
    /\ Len(R) = Cardinality(E)
    /\ \A k \in 1..Len(R) :
          /\ R[k].lineNumber \in E
          /\ R[k].line = F[R[k].lineNumber]
    /\ \A k \in 1..(Len(R) - 1) : R[k].lineNumber < R[k + 1].lineNumber

IsCeiling(k, n, s) ==
    /\ k \in Nat
    /\ k * s >= n
    /\ k > 0 => (k - 1) * s < n

\* C2: every resolved PageResult has totalPages = ceil(totalResults /
\* pageSize), which is 0 for no results, hasNextPage = (page < totalPages),
\* hasPreviousPage = (page > 1), and the page and pageSize of the call; a scan
\* that ends with no match resolves with an empty results list.
C2_Pagination ==
    \A c \in Calls :
        /\ Resolved(c) =>
              LET pg == promise[c].value.pagination
              IN  /\ pg.page = args[c].page
                  /\ pg.pageSize = args[c].pageSize
                  /\ pg.totalResults = Len(locals[c].results)
                  /\ IsCeiling(pg.totalPages, pg.totalResults, pg.pageSize)
                  /\ pg.totalResults = 0 =>
                        pg.totalPages = 0 /\ promise[c].value.results = <<>>
                  /\ pg.hasNextPage = (pg.page < pg.totalPages)
                  /\ pg.hasPreviousPage = (pg.page > 1)
        /\ (rl[c] = "closed" /\ locals[c].results = <<>>) => Resolved(c)

\* Three results in pages of two: the first of two pages.
C2_Witness ==
    \E c \in Calls :
        /\ Resolved(c)
        /\ promise[c].value.pagination.totalResults = 3
        /\ promise[c].value.pagination.pageSize = 2
        /\ promise[c].value.pagination.page = 1
        /\ promise[c].value.pagination.hasNextPage

RECURSIVE ConcatPages(_, _, _, _)
\* The slices of pages p..last of the match list M, one after the other.
ConcatPages(M, S, p, last) ==
    IF p > last THEN <<>>
    ELSE PaginatedResults(M, p, S) \o ConcatPages(M, S, p + 1, last)

RECURSIVE SumPageSizes(_, _, _, _)
SumPageSizes(M, S, p, last) ==
    IF p > last THEN 0
    ELSE Len(PaginatedResults(M, p, S)) + SumPageSizes(M, S, p + 1, last)

LineNumbers(records) == [i \in 1..Len(records) |-> records[i].lineNumber]
Lines(records) == [i \in 1..Len(records) |-> records[i].line]

\* The elements (p-1)*S+1 .. min(p*S, N) of M, by position.
PageByPosition(M, p, S) ==
    LET first == (p - 1) * S
        k == Max(0, Min(S, Len(M) - first))
    IN  [i \in 1..k |-> M[first + i]]

\* C3: for a non-empty match list of length N and page size S, the slices of
\* the pages 1..ceil(N/S) are pairwise disjoint, their sizes sum to N, in page
\* order they make up the match list, slice p is matches[(p-1)*S : (p-1)*S + S],
\* and the records returned are those of the slice of the page asked for.
C3_Slices ==
    \A c \in Calls :
        (Resolved(c) /\ locals[c].results # <<>>) =>
            LET M == locals[c].results
                S == args[c].pageSize
                last == promise[c].value.pagination.totalPages
                slice(p) == PaginatedResults(M, p, S)
                numbers(p) == {slice(p)[i].lineNumber : i \in 1..Len(slice(p))}
            IN  /\ \A p \in 1..last : slice(p) = PageByPosition(M, p, S)
                /\ \A p, q \in 1..last : p # q => numbers(p) \cap numbers(q) = {}
                /\ SumPageSizes(M, S, 1, last) = Len(M)
                /\ ConcatPages(M, S, 1, last) = M
                /\ LineNumbers(promise[c].value.results)
                      = LineNumbers(PageByPosition(M, args[c].page, S))
                /\ Lines(promise[c].value.results)
                      = Lines(PageByPosition(M, args[c].page, S))

\* Three matches in pages of two: the second page, with the one match left.
C3_Witness ==
    \E c \in Calls :
        /\ Resolved(c)
        /\ Len(locals[c].results) = 3
        /\ args[c].pageSize = 2
        /\ args[c].page = 2
        /\ Len(promise[c].value.results) = 1

\* C4: a page beyond the last one (any page when nothing matches) resolves
\* with no results, hasNextPage false and hasPreviousPage true exactly when
\* page > 1; with pageSize >= totalResults, page 1 holds every match.
C4_BeyondLastPage ==
    \A c \in Calls :
        /\ (rl[c] = "closed"
              /\ (args[c].page - 1) * args[c].pageSize >= Len(locals[c].results))
              => Resolved(c)
        /\ Resolved(c) =>
              LET pg == promise[c].value.pagination
              IN  /\ pg.page > pg.totalPages =>
                        /\ promise[c].value.results = <<>>
                        /\ ~pg.hasNextPage
                        /\ pg.hasPreviousPage = (pg.page > 1)
                  /\ (pg.pageSize >= pg.totalResults /\ pg.page = 1) =>
                        LineNumbers(promise[c].value.results)
                           = LineNumbers(locals[c].results)

\* Page 3 of 2 of a search that has matches.
C4_Witness ==
    \E c \in Calls :
        /\ Resolved(c)
        /\ promise[c].value.pagination.page = 3
        /\ promise[c].value.pagination.totalPages = 2
        /\ promise[c].value.results = <<>>
        /\ promise[c].value.pagination.hasPreviousPage

(***************************************************************************)
(* Properties of the failure paths and of the file handle (under Spec and  *)
(* FairSpec).                                                              *)
(***************************************************************************)
IsFileNotFound(c) == promise[c].value = FileNotFoundError(args[c].filePath)

\* C5: when the path does not exist as searchFile is called, the promise is
\* rejected with the file-not-found error at once; for such a call no stream
\* is created, no line is read, and the rejection is never replaced by a
\* PageResult.
C5_FileNotFound ==
    /\ [](\A c \in Calls :
            IsFileNotFound(c) =>
               /\ promise[c].state = "rejected"
               /\ stream[c] = NoStream
               /\ rl[c] = "none"
               /\ locals[c].lineNumber = 0
               /\ locals[c].results = <<>>
               /\ response[c].kind # "return")
    /\ [][\A c \in Calls :
            (pc[c] = "calling" /\ pc'[c] # "calling" /\ ~ExistsSync(args[c].filePath))
               => /\ promise'[c].state = "rejected"
                  /\ promise'[c].value = FileNotFoundError(args[c].filePath)
                  /\ stream'[c] = NoStream]_vars
    /\ [][\A c \in Calls : IsFileNotFound(c) => promise'[c] = promise[c]]_vars

\* The file was removed before searchFile ran: the handler has thrown the
\* file-not-found error.
C5_Witness ==
    \E c \in Calls :
        /\ IsFileNotFound(c)
        /\ pc[c] = "done"
        /\ response[c].kind = "throw"

OpenErrors == {IOError("ENOENT"), IOError("EACCES")}
ReadErrors == {IOError("EIO")}

\* C6: once the stream of a call has failed, the call's promise is rejected
\* with the stream's error and the handler never returns a PageResult; a
\* settled promise and a given response never change afterwards.
C6_IOError ==
    /\ [](\A c \in Calls :
            stream[c].state = "errored" =>
               /\ promise[c].state = "rejected"
               /\ promise[c].value \in
                     (IF stream[c].opens = 0 THEN OpenErrors ELSE ReadErrors)
               /\ response[c].kind # "return"
               /\ pc[c] = "done" =>
                     response[c] = [kind |-> "throw",
                                    body |-> ExecutingTool(req[c].name, promise[c].value)])
    /\ [][\A c \in Calls : Settled(c) => promise'[c] = promise[c]]_vars
    /\ [][\A c \in Calls : response[c].kind # "none" => response'[c] = response[c]]_vars

\* A read failed after a line had matched: the handler has thrown.
C6_Witness ==
    \E c \in Calls :
        /\ stream[c].state = "errored"
        /\ Len(locals[c].results) >= 1
        /\ stream[c].pos < Len(FileOf(c))
        /\ pc[c] = "done"
        /\ response[c].kind = "throw"

\* C7: a call opens at most one file handle, and only after the existence
\* check has passed; once the call has settled, its handle is closed from
\* some point on.
C7_Handle ==
    /\ [](\A c \in Calls :
            /\ stream[c].opens <= 1
            /\ stream[c].fd =>
                  /\ stream[c].opens = 1
                  /\ pc[c] \in {"awaiting", "done"}
                  /\ ~IsFileNotFound(c))
    /\ \A c \in Calls : [](Settled(c) => <>[](~stream[c].fd))

\* A read failed on an open file: the call is rejected and its handle closed.
C7_Witness ==
    \E c \in Calls :
        /\ promise[c].state = "rejected"
        /\ stream[c].state = "errored"
        /\ stream[c].opens = 1
        /\ ~stream[c].fd

(***************************************************************************)
(* Properties of the formatted records (under SpecScan).                   *)
(***************************************************************************)
RECURSIVE Tokens(_)
\* The maximal runs of non-blank characters of s, in order.
Tokens(s) ==
    LET starts == {i \in 1..Len(s) : ~IsWhitespace(s[i])}
    IN  IF starts = {} THEN <<>>
        ELSE LET i == CHOOSE k \in starts : \A m \in starts : k <= m
                 blanks == {k \in (i + 1)..Len(s) : IsWhitespace(s[k])}
                 j == IF blanks = {} THEN Len(s) + 1
                      ELSE CHOOSE k \in blanks : \A m \in blanks : k <= m
             IN  <<SubSeq(s, i, j - 1)>> \o Tokens(SubSeq(s, j, Len(s)))

\* C8: a returned record has id, value and formatted exactly when its line
\* has two whitespace-separated tokens or more; then id is the first token,
\* value the other tokens joined by single spaces, formatted = id TAB value;
\* a line of fewer tokens is returned with line and lineNumber only.
C8_Format ==
    \A c \in Calls :
        Resolved(c) =>
            \A i \in 1..Len(promise[c].value.results) :
                LET r == promise[c].value.results[i]
                    tokens == Tokens(r.line)
                IN  IF Len(tokens) >= 2
                    THEN /\ DOMAIN r = {"line", "lineNumber", "id", "value", "formatted"}
                         /\ r.id = tokens[1]
                         /\ r.value = Join(Tail(tokens), <<" ">>)
                         /\ r.formatted = r.id \o <<"\t">> \o r.value
                    ELSE DOMAIN r = {"line", "lineNumber"}

(***************************************************************************)
(* Properties of the router's validation (under Spec).                     *)
(***************************************************************************)
Handled(c) == pc[c] \in {"calling", "awaiting", "done"}
InvokedSearchFile(c) == \E h \in invoked[c] : h.fn = "searchFile"

\* The call names a tool that takes a filename, and the filename contains
\* "..", "/" or "\".
HasTraversalFilename(r) ==
    /\ r.name \in {SearchDataFileTool, GetFileDetailsTool}
    /\ r.filename.kind = "string"
    /\ \/ IsSubstring(<<".", ".">>, r.filename.val)
       \/ IsSubstring(<<"/">>, r.filename.val)
       \/ IsSubstring(<<"\\">>, r.filename.val)

PageInBounds(raw) == raw.kind = "omitted" \/ (raw.kind = "int" /\ raw.val >= 1)
PageSizeInBounds(raw) ==
    raw.kind = "omitted" \/ (raw.kind = "int" /\ raw.val >= 1 /\ raw.val <= 100)

\* The other arguments of the call pass the tool's schema.
OtherArgumentsValid(r) ==
    r.name = SearchDataFileTool =>
        r.query.kind = "string" /\ PageInBounds(r.page) /\ PageSizeInBounds(r.pageSize)

\* C9 as stated: a filename with "..", "/" or "\" makes the call fail with
\* 'Invalid filename', and no file helper is invoked.
C9_AsStated ==
    \A c \in Calls :
        (Handled(c) /\ HasTraversalFilename(req[c])) =>
            /\ pc[c] = "done"
            /\ response[c] = [kind |-> "throw",
                              body |-> ExecutingTool(req[c].name, InvalidFilename)]
            /\ invoked[c] = {}

\* C9: a filename with "..", "/" or "\" makes the call fail, with 'Invalid
\* filename' when the call's other arguments pass the schema and with
\* 'Invalid arguments' when they do not, and in both cases fileExists,
\* searchFile and getFileDetails are not invoked.
C9_Traversal ==
    \A c \in Calls :
        (Handled(c) /\ HasTraversalFilename(req[c])) =>
            /\ pc[c] = "done"
            /\ response[c] = [kind |-> "throw",
                              body |-> IF OtherArgumentsValid(req[c])
                                       THEN ExecutingTool(req[c].name, InvalidFilename)
                                       ELSE InvalidArguments]
            /\ invoked[c] = {}
            /\ args[c] = NoArgs
            /\ promise[c] = Unused

\* search_data_file was called with a backslash in the filename and failed
\* with 'Invalid filename'.
C9_Witness ==
    \E c \in Calls :
        /\ pc[c] = "done"
        /\ req[c].name = SearchDataFileTool
        /\ req[c].filename = RawString(<<"\\">>)
        /\ response[c].kind = "throw"
        /\ response[c].body = ExecutingTool(SearchDataFileTool, InvalidFilename)

IsSearchTool(name) == name \in SearchTypesTools \cup {SearchDataFileTool}

\* C10: searchFile is invoked with an integer page >= 1 and an integer
\* pageSize in 1..100 only, page 1 and pageSize 10 standing for an omitted
\* argument; a search tool call whose page or pageSize is out of these bounds
\* fails with 'Invalid arguments' and does not invoke searchFile.
C10_PageBounds ==
    \A c \in Calls :
        /\ InvokedSearchFile(c) =>
              /\ req[c].page.kind \in {"omitted", "int"}
              /\ req[c].pageSize.kind \in {"omitted", "int"}
              /\ args[c].page = IF req[c].page.kind = "omitted" THEN 1 ELSE req[c].page.val
              /\ args[c].pageSize =
                    IF req[c].pageSize.kind = "omitted" THEN 10 ELSE req[c].pageSize.val
              /\ args[c].page >= 1
              /\ args[c].pageSize >= 1
              /\ args[c].pageSize <= 100
        /\ (Handled(c) /\ IsSearchTool(req[c].name)
              /\ ~(PageInBounds(req[c].page) /\ PageSizeInBounds(req[c].pageSize))) =>
              /\ pc[c] = "done"
              /\ response[c] = [kind |-> "throw", body |-> InvalidArguments]
              /\ ~InvokedSearchFile(c)
              /\ promise[c] = Unused

\* A search with page omitted and pageSize 100 has returned its page.
C10_Witness ==
    \E c \in Calls :
        /\ pc[c] = "done"
        /\ req[c].page = Omitted
        /\ req[c].pageSize = RawInt(100)
        /\ response[c].kind = "return"
        /\ Resolved(c)
        /\ promise[c].value.pagination.page = 1
        /\ promise[c].value.pagination.pageSize = 100

\* C11: searchFile is invoked with a non-empty search term only; a search
\* tool call whose query is the empty string fails with 'Invalid arguments'
\* and does not invoke searchFile.
C11_NonEmptyTerm ==
    \A c \in Calls :
        /\ InvokedSearchFile(c) => args[c].searchTerm # <<>>
        /\ (Handled(c) /\ IsSearchTool(req[c].name) /\ req[c].query = RawString(<<>>)) =>
              /\ pc[c] = "done"
              /\ response[c] = [kind |-> "throw", body |-> InvalidArguments]
              /\ ~InvokedSearchFile(c)
              /\ promise[c] = Unused

(***************************************************************************)
(* Independence of concurrent searches (under SpecConc).                   *)
(***************************************************************************)
RECURSIVE ScanAlone(_, _, _)
\* The bindings of a call with arguments a that runs alone on the file F,
\* after its 'line' handler has run for the first n lines.
ScanAlone(F, a, n) ==
    IF n = 0
    THEN [searchTerm |-> NormalizeTerm(a.searchTerm), page |-> a.page,
          pageSize |-> a.pageSize, results |-> <<>>, lineNumber |-> 0]
    ELSE OnLine(ScanAlone(F, a, n - 1), F[n])

\* The PageResult of a call with arguments a that runs alone on the file F.
ResultAlone(F, a) == OnClose(ScanAlone(F, a, Len(F)))

\* Everything that belongs to call c.
CallState(c) == <<pc[c], args[c], locals[c], stream[c], rl[c], promise[c]>>

\* C12: under every interleaving of the line, close and error events of two
\* concurrent calls on the same file, each call's match list, line counter
\* and normalized term are at every moment those of the call running alone
\* on the lines it has read, a call that resolves does so with the PageResult
\* of the call running alone, a call is rejected only for the failure of its
\* own stream, and no event of one call changes anything of the other call.
C12_Independent ==
    /\ [](\A c \in Calls :
            /\ pc[c] = "awaiting" =>
                  locals[c] = ScanAlone(FileOf(c), args[c], stream[c].pos)
            /\ Resolved(c) =>
                  /\ stream[c].pos = Len(FileOf(c))
                  /\ promise[c].value = ResultAlone(FileOf(c), args[c])
            /\ promise[c].state = "rejected" =>
                  /\ stream[c].state = "errored"
                  /\ promise[c].value \in
                        (IF stream[c].opens = 0 THEN OpenErrors ELSE ReadErrors))
    /\ [][\A c, d \in Calls :
            (c # d /\ CallState(c)' # CallState(c)) => CallState(d)' = CallState(d)]_vars

\* Call 1 has resolved while call 2, on the same file with another term, is
\* in the middle of its scan; the two match lists differ.
C12_Witness ==
    /\ Resolved(1)
    /\ args[1].filePath = args[2].filePath
    /\ args[1].searchTerm # args[2].searchTerm
    /\ stream[2].state = "open"
    /\ rl[2] = "listening"
    /\ stream[2].pos = 2
    /\ locals[2].lineNumber = 2
    /\ locals[2].results # <<>>
    /\ locals[1].results # <<>>
    /\ \A i \in 1..Len(locals[2].results) :
          i <= Len(locals[1].results) => locals[1].results[i] # locals[2].results[i]

(***************************************************************************)
(* The order of formatting and pagination (under SpecScan).                *)
(***************************************************************************)
\* Every match of M through the formatter, in order.
FormatAll(M) == [i \in 1..Len(M) |-> FormatResult(M[i])]

\* C13: the results searchFile resolves with, formatted after slicing, are
\* the page taken by position out of the list of all matches formatted, for
\* every file, term, page and pageSize; totalResults is the length of the
\* full match list and totalPages its number of pages.
C13_FormatThenPaginate ==
    \A c \in Calls :
        Resolved(c) =>
            LET M == locals[c].results
                v == promise[c].value
            IN  /\ Len(FormatAll(M)) = Len(M)
                /\ v.results = PageByPosition(FormatAll(M), args[c].page, args[c].pageSize)
                /\ v.pagination.totalResults = Len(M)
                /\ IsCeiling(v.pagination.totalPages, Len(M), args[c].pageSize)

\* Three matches, two to a page: page 2 holds the third match alone, as a
\* key-value pair, and the two matches left out format to key-value pairs too.
C13_Witness ==
    \E c \in Calls :
        /\ Resolved(c)
        /\ Len(locals[c].results) = 3
        /\ args[c].page = 2
        /\ args[c].pageSize = 2
        /\ Len(promise[c].value.results) = 1
        /\ "formatted" \in DOMAIN promise[c].value.results[1]
        /\ promise[c].value.results[1] = FormatAll(locals[c].results)[3]
        /\ \A i \in 1..2 : "formatted" \in DOMAIN FormatAll(locals[c].results)[i]
        /\ promise[c].value.pagination.totalResults = 3

(***************************************************************************)
(* Termination of searchFile (under FairSpec).                             *)
(***************************************************************************)
\* C14: every searchFile call returns a promise that is eventually settled,
\* also when the stream fails after the existence check has passed; a
\* settled promise holds a PageResult when resolved and an error when
\* rejected.
C14_Settles ==
    /\ \A c \in Calls : [](promise[c].state = "pending" => <>Settled(c))
    /\ [](\A c \in Calls :
            /\ pc[c] = "awaiting" => promise[c].state \in {"pending", "resolved", "rejected"}
            /\ Resolved(c) => DOMAIN promise[c].value = {"results", "pagination"}
            /\ promise[c].state = "rejected" => promise[c].value.tag = "error")

\* The file passed the existence check and was removed before the stream
\* opened it: the open failed and the promise is rejected with ENOENT.
C14_Witness ==
    \E c \in Calls :
        /\ promise[c] = [state |-> "rejected", value |-> IOError("ENOENT")]
        /\ stream[c].state = "errored"
        /\ stream[c].opens = 0
        /\ ~ExistsSync(args[c].filePath)
        /\ locals[c].lineNumber = 0

=============================================================================
